---- MODULE Spec2Model ----
(***************************************************************************)
(* Model of api/v1alpha1/runner_types.go: the Runner aggregate (desired    *)
(* RunnerSpec, observed RunnerStatusRegistration), RunnerSpec's            *)
(* ValidateRepository and Runner's IsRegisterable.                         *)
(*                                                                         *)
(* Time is a natural number.  0 is the zero metav1.Time (the ExpiresAt of  *)
(* a zero RunnerStatusRegistration); the wall clock is always after it.    *)
(***************************************************************************)
EXTENDS Integers, Sequences, FiniteSets, TLC

\* Largest instant of the model (clock and ExpiresAt).
MaxTime == 2

\* The concurrent reconciler workers evaluating the aggregate.
Workers == {"w1", "w2"}

\* Values of the string fields the model draws from.
Enterprises == {"", "acme"}
Organizations == {"", "acme"}
EchoOrganizations == {"", "acme", "other"}
Repositories == {"", "org/repo", "Org/Repo"}
Tokens == {"", "abc"}

\* type RunnerSpec: the three scope fields (the rest is passed through).
RunnerSpec == [Enterprise : Enterprises, Organization : Organizations, Repository : Repositories]

\* type RunnerStatusRegistration.
RunnerStatusRegistration ==
    [Enterprise : Enterprises, Organization : EchoOrganizations, Repository : Repositories,
     Token : Tokens, ExpiresAt : 0..MaxTime]

\* The zero value of type Runner.
ZeroRunner ==
    [Spec |-> [Enterprise |-> "", Organization |-> "", Repository |-> ""],
     Status |-> [Registration |-> [Enterprise |-> "", Organization |-> "", Repository |-> "",
                                   Token |-> "", ExpiresAt |-> 0]]]

VARIABLES
    runner,   \* the Runner aggregate the workers read
    now,      \* the wall clock, what metav1.Now() returns
    err,      \* err[w]: the values ValidateRepository returned to worker w for the current runner
    ok        \* ok[w]: the values IsRegisterable returned to worker w for the current runner and instant

vars == <<runner, now, err, ok>>

\* No evaluation of the current snapshot has returned yet.
NoResult == [w \in Workers |-> {}]

\* errors.New("Spec needs enterprise, organization or repository")
ErrMissingScope == "Spec needs enterprise, organization or repository"

\* errors.New("Spec cannot have many fields defined enterprise, organization and repository")
ErrAmbiguousScope == "Spec cannot have many fields defined enterprise, organization and repository"

\* foundCount that forgets the enterprise field.
foundCount_noEnterprise(rs) ==
    (IF Len(rs.Organization) > 0 THEN 1 ELSE 0)
  + (IF Len(rs.Repository) > 0 THEN 1 ELSE 0)

\* foundCount of ValidateRepository after the three increments.
foundCount(rs) ==
    (IF Len(rs.Organization) > 0 THEN 1 ELSE 0)
  + (IF Len(rs.Repository) > 0 THEN 1 ELSE 0)
  + (IF Len(rs.Enterprise) > 0 THEN 1 ELSE 0)

\* ValidateRepository with the two error returns exchanged.
ValidateRepository_swapped(rs) ==
    IF foundCount(rs) = 0 THEN ErrAmbiguousScope
    ELSE IF foundCount(rs) > 1 THEN ErrMissingScope
    ELSE "nil"

\* func (rs *RunnerSpec) ValidateRepository() error
ValidateRepository(rs) ==
    IF foundCount(rs) = 0 THEN ErrMissingScope
    ELSE IF foundCount(rs) > 1 THEN ErrAmbiguousScope
    ELSE "nil"

\* metav1.Now()
Now == now

\* Before that also holds at equal instants.
Before_orEqual(t, u) == t <= u

\* Before with its operands exchanged (t is later than u).
Before_after(t, u) == t > u

\* ExpiresAt.Before(&now): t is strictly earlier than u.
Before(t, u) == t < u

\* strings.ToLower on the repository values of the model.
ToLower(s) == IF s = "Org/Repo" THEN "org/repo" ELSE s

\* IsRegisterable that skips the empty-token check.
IsRegisterable_noToken(r) ==
    IF r.Status.Registration.Repository # r.Spec.Repository THEN FALSE
    ELSE IF Before(r.Status.Registration.ExpiresAt, Now) THEN FALSE
    ELSE TRUE

\* IsRegisterable whose token check is inverted.
IsRegisterable_tokenInverted(r) ==
    IF r.Status.Registration.Repository # r.Spec.Repository THEN FALSE
    ELSE IF r.Status.Registration.Token # "" THEN FALSE
    ELSE IF Before(r.Status.Registration.ExpiresAt, Now) THEN FALSE
    ELSE TRUE

\* IsRegisterable that compares the repositories ignoring case.
IsRegisterable_foldCase(r) ==
    IF ToLower(r.Status.Registration.Repository) # ToLower(r.Spec.Repository) THEN FALSE
    ELSE IF r.Status.Registration.Token = "" THEN FALSE
    ELSE IF Before(r.Status.Registration.ExpiresAt, Now) THEN FALSE
    ELSE TRUE

\* IsRegisterable that rejects an empty repository echo.
IsRegisterable_emptyRepo(r) ==
    IF r.Status.Registration.Repository # r.Spec.Repository THEN FALSE
    ELSE IF r.Status.Registration.Repository = "" THEN FALSE
    ELSE IF r.Status.Registration.Token = "" THEN FALSE
    ELSE IF Before(r.Status.Registration.ExpiresAt, Now) THEN FALSE
    ELSE TRUE

\* IsRegisterable that also compares the organization echo.
IsRegisterable_orgCheck(r) ==
    IF r.Status.Registration.Repository # r.Spec.Repository THEN FALSE
    ELSE IF r.Status.Registration.Organization # r.Spec.Organization THEN FALSE
    ELSE IF r.Status.Registration.Token = "" THEN FALSE
    ELSE IF Before(r.Status.Registration.ExpiresAt, Now) THEN FALSE
    ELSE TRUE

\* func (r Runner) IsRegisterable() bool
IsRegisterable(r) ==
    IF r.Status.Registration.Repository # r.Spec.Repository THEN FALSE
    ELSE IF r.Status.Registration.Token = "" THEN FALSE
    ELSE IF Before(r.Status.Registration.ExpiresAt, Now) THEN FALSE
    ELSE TRUE

Init ==
    /\ runner = ZeroRunner
    /\ now = 1
    /\ err = NoResult
    /\ ok = NoResult

\* The user declares the desired scope: Runner.Spec is assigned.
SetSpec(rs) ==
    /\ runner' = [runner EXCEPT !.Spec = rs]
    /\ err' = NoResult
    /\ ok' = NoResult
    /\ UNCHANGED now

\* The reconciler stores a registration obtained from the provider:
\* Runner.Status.Registration is replaced as a whole.
SetRegistration(reg) ==
    /\ runner' = [runner EXCEPT !.Status.Registration = reg]
    /\ err' = NoResult
    /\ ok' = NoResult
    /\ UNCHANGED now

\* The wall clock advances.
Tick ==
    /\ now < MaxTime
    /\ now' = now + 1
    /\ err' = NoResult
    /\ ok' = NoResult
    /\ UNCHANGED runner

\* ValidateRepository that clears the field it has counted.
ValidateRepositoryCall_clearing(w) ==
    /\ err' = [err EXCEPT ![w] = @ \cup {ValidateRepository(runner.Spec)}]
    /\ runner' = [runner EXCEPT !.Spec.Repository = ""]
    /\ UNCHANGED <<now, ok>>

\* Worker w calls runner.Spec.ValidateRepository().
ValidateRepositoryCall(w) ==
    /\ err' = [err EXCEPT ![w] = @ \cup {ValidateRepository(runner.Spec)}]
    /\ UNCHANGED <<runner, now, ok>>

\* Worker w calls runner.IsRegisterable().
IsRegisterableCall(w) ==
    /\ ok' = [ok EXCEPT ![w] = @ \cup {IsRegisterable(runner)}]
    /\ UNCHANGED <<runner, now, err>>

Next ==
    \/ \E rs \in RunnerSpec : SetSpec(rs)
    \/ \E reg \in RunnerStatusRegistration : SetRegistration(reg)
    \/ Tick
    \/ \E w \in Workers : ValidateRepositoryCall(w)
    \/ \E w \in Workers : IsRegisterableCall(w)

Spec == Init /\ [][Next]_vars

TypeOK ==
    /\ runner.Spec \in RunnerSpec
    /\ runner.Status.Registration \in RunnerStatusRegistration
    /\ now \in 1..MaxTime
    /\ err \in [Workers -> SUBSET {"nil", ErrMissingScope, ErrAmbiguousScope}]
    /\ ok \in [Workers -> SUBSET BOOLEAN]

\* The scope fields of the desired spec that are non-empty.
ScopesSet == {f \in {"Enterprise", "Organization", "Repository"} : runner.Spec[f] # ""}

\* The repository echo equals the desired repository and the token is non-empty.
EchoAndTokenGood ==
    /\ runner.Status.Registration.Repository = runner.Spec.Repository
    /\ runner.Status.Registration.Token # ""

\* C1 as stated: whenever expiresAt <= now (expiresAt = now included), IsRegisterable
\* returns false, whatever the token and the repository fields are.
C1_Original ==
    \A w \in Workers : \A b \in ok[w] :
        runner.Status.Registration.ExpiresAt <= now => b = FALSE

\* C1 amended: whenever expiresAt is strictly before now, IsRegisterable returns false
\* whatever the token and the repository fields are; at expiresAt = now the expiry
\* check does not reject, so IsRegisterable returns true when the repository echo
\* matches and the token is non-empty.
C1_Amended ==
    \A w \in Workers : \A b \in ok[w] :
        /\ runner.Status.Registration.ExpiresAt < now => b = FALSE
        /\ (runner.Status.Registration.ExpiresAt = now /\ EchoAndTokenGood) => b = TRUE

\* An evaluation rejected an aggregate only because its registration expired before now.
C1_Witness ==
    \E w \in Workers :
        /\ ok[w] = {FALSE}
        /\ EchoAndTokenGood
        /\ runner.Status.Registration.ExpiresAt < now

\* C2: ValidateRepository returns nil if and only if exactly one of enterprise,
\* organization, repository is non-empty; otherwise it returns an error.
C2_ExactlyOne ==
    \A w \in Workers : \A e \in err[w] :
        (e = "nil") <=> (Cardinality(ScopesSet) = 1)

\* Validation of an enterprise-only spec succeeded.
C2_Witness ==
    \E w \in Workers :
        /\ err[w] = {"nil"}
        /\ ScopesSet = {"Enterprise"}

\* C3: there are two distinguishable error kinds, assigned by count: no scope field
\* set fails with MissingScope, two or three set fail with AmbiguousScope.
C3_ErrorKinds ==
    /\ ErrMissingScope # ErrAmbiguousScope
    /\ \A w \in Workers : \A e \in err[w] :
        /\ e \in {"nil", ErrMissingScope, ErrAmbiguousScope}
        /\ Cardinality(ScopesSet) = 0 => e = ErrMissingScope
        /\ Cardinality(ScopesSet) >= 2 => e = ErrAmbiguousScope

\* Scenario D: enterprise and organization both "acme" was rejected as ambiguous.
C3_Witness ==
    \E w \in Workers :
        /\ err[w] = {ErrAmbiguousScope}
        /\ runner.Spec.Enterprise = "acme"
        /\ runner.Spec.Organization = "acme"
        /\ runner.Spec.Repository = ""

\* C4: whenever the registration token is empty, IsRegisterable returns false (a
\* boolean, never an error) regardless of all other fields.
C4_EmptyToken ==
    \A w \in Workers : \A b \in ok[w] :
        /\ b \in BOOLEAN
        /\ runner.Status.Registration.Token = "" => b = FALSE

\* An evaluation rejected an aggregate whose only defect is the empty token.
C4_Witness ==
    \E w \in Workers :
        /\ ok[w] = {FALSE}
        /\ runner.Status.Registration.Token = ""
        /\ runner.Status.Registration.Repository = runner.Spec.Repository
        /\ runner.Status.Registration.ExpiresAt > now

\* C5: whenever the repository echo differs from the desired repository (compared
\* case-sensitively, one side possibly empty), IsRegisterable returns false even
\* with a non-empty token and a future expiresAt.
C5_RepositoryMismatch ==
    \A w \in Workers : \A b \in ok[w] :
        runner.Status.Registration.Repository # runner.Spec.Repository => b = FALSE

\* An evaluation rejected a fresh token whose repository echo differs only in case.
C5_Witness ==
    \E w \in Workers :
        /\ ok[w] = {FALSE}
        /\ runner.Spec.Repository = "org/repo"
        /\ runner.Status.Registration.Repository = "Org/Repo"
        /\ runner.Status.Registration.Token # ""
        /\ runner.Status.Registration.ExpiresAt > now

\* C6: whenever the repository echo equals the desired repository, the token is
\* non-empty and expiresAt is strictly after now, IsRegisterable returns true.
C6_Registerable ==
    \A w \in Workers : \A b \in ok[w] :
        (EchoAndTokenGood /\ runner.Status.Registration.ExpiresAt > now) => b = TRUE

\* Scenario A: repository "org/repo" on both sides, token "abc", expiresAt after now.
C6_Witness ==
    \E w \in Workers :
        /\ ok[w] = {TRUE}
        /\ runner.Spec.Repository = "org/repo"
        /\ runner.Status.Registration.Repository = "org/repo"
        /\ runner.Status.Registration.Token = "abc"
        /\ runner.Status.Registration.ExpiresAt = now + 1

\* Scenario C: organization "acme", no repository, empty repository echo, token
\* "abc", expiresAt after now.
ScenarioC ==
    /\ runner.Spec.Enterprise = ""
    /\ runner.Spec.Organization = "acme"
    /\ runner.Spec.Repository = ""
    /\ runner.Status.Registration.Repository = ""
    /\ runner.Status.Registration.Token = "abc"
    /\ runner.Status.Registration.ExpiresAt = now + 1

\* C7 as stated: in scenario C IsRegisterable returns false.
C7_Original ==
    \A w \in Workers : \A b \in ok[w] : ScenarioC => b = FALSE

\* C7 amended: in scenario C IsRegisterable returns true (the empty echo equals
\* the empty desired repository).
C7_Amended ==
    \A w \in Workers : \A b \in ok[w] : ScenarioC => b = TRUE

\* Scenario C was evaluated.
C7_Witness ==
    \E w \in Workers : ScenarioC /\ ok[w] = {TRUE}

C9_ScopeIndependent ==
    \A w \in Workers : \A b \in ok[w] :
        /\ \A e1 \in Enterprises, o1 \in Organizations, e2 \in Enterprises, o2 \in EchoOrganizations :
              IsRegisterable([runner EXCEPT !.Spec.Enterprise = e1,
                                            !.Spec.Organization = o1,
                                            !.Status.Registration.Enterprise = e2,
                                            !.Status.Registration.Organization = o2]) = b
        /\ (EchoAndTokenGood /\ runner.Status.Registration.ExpiresAt > now) => b = TRUE

\* An organization-scoped runner whose registration echoes another organization
\* was reported registerable.
C9_Witness ==
    \E w \in Workers :
        /\ ok[w] = {TRUE}
        /\ runner.Spec.Organization = "acme"
        /\ runner.Spec.Repository = ""
        /\ runner.Status.Registration.Organization = "other"

\* C10: every evaluation compares expiresAt with the clock at that evaluation,
\* and while neither the registration nor the desired repository is rewritten a
\* non-registerable aggregate never becomes registerable again as the clock moves.
C10_NeverBackToTrue ==
    [][ /\ \A w \in Workers : \A b \in ok'[w] :
              (runner'.Status.Registration.Repository = runner'.Spec.Repository
               /\ runner'.Status.Registration.Token # "")
              => (b <=> runner'.Status.Registration.ExpiresAt >= now')
        /\ ( /\ runner'.Status.Registration = runner.Status.Registration
             /\ runner'.Spec.Repository = runner.Spec.Repository
             /\ ~IsRegisterable(runner) )
           => ~(IsRegisterable(runner))' ]_vars

\* A registration that was usable at its expiry instant is rejected after the
\* clock has passed it.
C10_Witness ==
    \E w \in Workers :
        /\ ok[w] = {FALSE}
        /\ EchoAndTokenGood
        /\ runner.Status.Registration.ExpiresAt >= 1
        /\ runner.Status.Registration.ExpiresAt < now
====
